---- MODULE Spec2Model ----
(***************************************************************************)
(* The in-memory todo store of rust-todo (src/src/main.rs, src/src/lib.rs) *)
(* and its six request handlers, run by concurrent worker threads that     *)
(* share one Arc<Mutex<AppState>>.                                         *)
(*                                                                         *)
(* A handler is a sequence of steps: data.lock().unwrap() (Lock), then the *)
(* statement that runs while the MutexGuard lives (the *Cs actions), which *)
(* ends by dropping the guard.  delete_todo takes the lock twice: the guard*)
(* of line 45 is a temporary dropped at the end of that statement, and     *)
(* line 48 locks again.                                                    *)
(***************************************************************************)
EXTENDS Naturals, Sequences, FiniteSets

\* ------------------------------------------------------------- bounds
NProcs == 2    \* handlers that can be in flight at once
MaxIds == 2    \* ids the generator issues in one behaviour

Procs  == 1..NProcs
Ids    == 1..MaxIds
Titles == {"a", "b"}

\* Option<T>: None is <<>>, Some(x) is <<x>>
None      == << >>
Some(x)   == <<x>>
Option(S) == {None} \cup {Some(x) : x \in S}

VARIABLES
    items,      \* AppState.items: Vec<Todo>
    poisoned,   \* the Mutex's poison flag (a holder panicked)
    guard,      \* the handlers that hold a MutexGuard
    issued,     \* how many ids Uuid::new_v4 has issued
    pc,         \* each handler's position
    req,        \* each handler's request (path id, JSON body)
    index,      \* delete_todo's local `index`
    todo,       \* add's local `todo`
    resp,       \* the HttpResponse returned by the latest step, if it returned one
    solo,       \* history: no other request was in flight since this one began
    last,       \* history: the latest store access, when it was an add, a clear or a removal
    added,      \* history: while no other mutation has happened, the 201
                \* responses in the order the adds took effect
    mutated     \* history: a clear, update or delete-by-id has changed the store

vars == <<items, poisoned, guard, issued, pc, req, index, todo, resp,
          solo, last, added, mutated>>

\* ------------------------------------------------------------- data
\* lib.rs Todo
Todo(i, t, c) == [id |-> i, title |-> t, completed |-> c]

\* (variant: a generator that hands out the latest id again)
NewV4Reissue == IF issued = 0 THEN 1 ELSE issued
\* Uuid::new_v4(): an id never issued before
NewV4 == issued + 1

\* (variant: completed: true)
FromNewCompleted(title) == Todo(NewV4, title, TRUE)
\* Todo::from_new
FromNew(title) == Todo(NewV4, title, FALSE)

\* a request: op, the path's id (0: none), the body's title and completed
Request(o, i, t, c) == [op |-> o, id |-> i, title |-> t, completed |-> c]

Requests ==
    {Request("get", 0, None, None), Request("delete", 0, None, None)}
    \cup {Request("get_todo", i, None, None) : i \in Ids}
    \cup {Request("add", 0, Some(t), None) : t \in Titles}
    \cup {Request("delete_todo", i, None, None) : i \in Ids}
    \cup {Request("update_todo", i, t, c) :
            i \in Ids, t \in Option(Titles), c \in Option(BOOLEAN)}

NoRequest == Request("none", 0, None, None)

\* an HttpResponse: status, JSON body (a sequence of todos), or the body {id}
Response(s, b, i) == [status |-> s, body |-> b, id |-> i]

\* a response on the wire: the handler, its request, the HttpResponse
\* (after: history, the store access that came right before this handler's)
Returned(p, r) == [proc |-> p, req |-> req[p], status |-> r.status,
                   body |-> r.body, id |-> r.id, after |-> last]
NoResponse == [proc |-> 0, req |-> NoRequest, status |-> 0, body |-> << >>,
               id |-> 0, after |-> [op |-> "other", id |-> 0, title |-> None]]

\* ------------------------------------------------------------- Vec
\* (variant: position(..).or(Some(0)) on a non-empty Vec)
PositionOrFirst(s, id) ==
    IF \E k \in 1..Len(s) : s[k].id = id
    THEN Some((CHOOSE k \in 1..Len(s) :
                  s[k].id = id /\ \A j \in 1..(k - 1) : s[j].id # id) - 1)
    ELSE IF Len(s) > 0 THEN Some(0) ELSE None
\* iter().position(|x| x.id == id): the first match's 0-based index
Position(s, id) ==
    IF \E k \in 1..Len(s) : s[k].id = id
    THEN Some((CHOOSE k \in 1..Len(s) :
                  s[k].id = id /\ \A j \in 1..(k - 1) : s[j].id # id) - 1)
    ELSE None

\* iter().find(|x| x.id == id)
Find(s, id) ==
    IF Position(s, id) = None THEN None ELSE Some(s[Position(s, id)[1] + 1])

\* (variant: Vec::truncate(index))
RemoveTruncate(s, i) == SubSeq(s, 1, i)
\* Vec::remove(index), for index < len
Remove(s, i) == SubSeq(s, 1, i) \o SubSeq(s, i + 2, Len(s))

\* (variant: the new item is written over the last one)
PushOverLast(s, x) == IF s = << >> THEN <<x>> ELSE [s EXCEPT ![Len(s)] = x]
\* (variant: Vec::insert(0, x))
PushFront(s, x) == <<x>> \o s
\* Vec::push
Push(s, x) == Append(s, x)

\* (variant: the first item survives)
VecKeepFirst == IF items = << >> THEN << >> ELSE SubSeq(items, 1, 1)
\* Vec::default()
VecDefault == << >>

\* (variant: completed.unwrap_or_default())
ApplyDefaulted(item, title, completed) ==
    Todo(item.id,
         IF title = None THEN item.title ELSE title[1],
         IF completed = None THEN FALSE ELSE completed[1])
\* (variant: the updated item is rebuilt under another id)
ApplyRekey(item, title, completed) ==
    Todo((item.id % MaxIds) + 1,
         IF title = None THEN item.title ELSE title[1],
         IF completed = None THEN item.completed ELSE completed[1])
\* update_todo's lines 59-60 on one item: `if let Some` for each field
Apply(item, title, completed) ==
    Todo(item.id,
         IF title = None THEN item.title ELSE title[1],
         IF completed = None THEN item.completed ELSE completed[1])

\* update_todo's loop: the first item with the id is updated, then return
UpdateFirst(s, id, title, completed) ==
    [k \in 1..Len(s) |->
        IF Position(s, id) = Some(k - 1) THEN Apply(s[k], title, completed)
        ELSE s[k]]

\* ------------------------------------------------------------- steps
InFlight(p) == pc[p] # "idle"

LockPcs == {"get_lock", "delete_lock", "get_todo_lock", "add_lock",
            "delete_todo_lock", "delete_todo_lock2", "update_todo_lock"}

CsOf(l) ==
    CASE l = "get_lock"          -> "get_cs"
      [] l = "delete_lock"       -> "delete_cs"
      [] l = "get_todo_lock"     -> "get_todo_cs"
      [] l = "add_lock"          -> "add_cs"
      [] l = "delete_todo_lock"  -> "delete_todo_cs"
      [] l = "delete_todo_lock2" -> "delete_todo_cs2"
      [] l = "update_todo_lock"  -> "update_todo_cs"

\* where a handler begins: add builds its Todo first (line 37), the others lock
Entry(o) ==
    CASE o = "get"         -> "get_lock"
      [] o = "delete"      -> "delete_lock"
      [] o = "get_todo"    -> "get_todo_lock"
      [] o = "add"         -> "add_new"
      [] o = "delete_todo" -> "delete_todo_lock"
      [] o = "update_todo" -> "update_todo_lock"

\* the history record of a store access
Access(o, i, t) == [op |-> o, id |-> i, title |-> t]
OtherAccess == Access("other", 0, None)

Init ==
    /\ items = << >>
    /\ poisoned = FALSE
    /\ guard = {}
    /\ issued = 0
    /\ pc = [p \in Procs |-> "idle"]
    /\ req = [p \in Procs |-> NoRequest]
    /\ index = [p \in Procs |-> None]
    /\ todo = [p \in Procs |-> None]
    /\ resp = NoResponse
    /\ solo = [p \in Procs |-> FALSE]
    /\ last = OtherAccess
    /\ added = << >>
    /\ mutated = FALSE

\* a request arrives and a worker starts its handler
Start(p, r) ==
    /\ ~InFlight(p)
    /\ r.op = "add" => issued + Cardinality({q \in Procs : pc[q] = "add_new"}) < MaxIds
    /\ pc' = [pc EXCEPT ![p] = Entry(r.op)]
    /\ req' = [req EXCEPT ![p] = r]
    /\ resp' = NoResponse
    /\ solo' = [q \in Procs |->
                  IF q = p THEN \A o \in Procs \ {p} : ~InFlight(o) ELSE FALSE]
    /\ UNCHANGED <<items, poisoned, guard, issued, index, todo, last, added, mutated>>

\* add, lines 37-38: let todo = Todo::from_new(&todo.0); let todo_id = todo.id;
New(p) ==
    /\ pc[p] = "add_new"
    /\ todo' = [todo EXCEPT ![p] = Some(FromNew(req[p].title[1]))]
    /\ issued' = issued + 1
    /\ pc' = [pc EXCEPT ![p] = "add_lock"]
    /\ resp' = NoResponse
    /\ UNCHANGED <<items, poisoned, guard, req, index, solo, last, added, mutated>>

\* the handler is over: a response was returned, or it panicked
End(p) ==
    /\ pc' = [pc EXCEPT ![p] = "idle"]
    /\ req' = [req EXCEPT ![p] = NoRequest]
    /\ index' = [index EXCEPT ![p] = None]
    /\ todo' = [todo EXCEPT ![p] = None]
    /\ solo' = solo

\* (variant: a lock that never waits)
LockFreeAlways == TRUE
\* Mutex::lock: waits until no guard is alive
LockFree == guard = {}

\* data.lock().unwrap(): the guard, or a panic when the mutex is poisoned
Lock(p) ==
    /\ pc[p] \in LockPcs
    /\ LockFree
    /\ resp' = NoResponse
    /\ IF poisoned
       THEN /\ End(p)
            /\ UNCHANGED guard
       ELSE /\ pc' = [pc EXCEPT ![p] = CsOf(pc[p])]
            /\ guard' = guard \cup {p}
            /\ UNCHANGED <<req, index, todo, solo>>
    /\ UNCHANGED <<items, poisoned, issued, last, added, mutated>>

\* the end of a handler's locked statement: the guard is dropped, the response returned
Finish(p, r) ==
    /\ End(p)
    /\ resp' = Returned(p, r)
    /\ guard' = guard \ {p}

\* history: a step that changes the store other than by an add ends the add log
Mutation ==
    /\ mutated' = (mutated \/ items' # items)
    /\ added' = IF mutated \/ items' # items THEN << >> ELSE added

\* get, line 17
GetCs(p) ==
    /\ pc[p] = "get_cs"
    /\ Finish(p, Response(200, items, 0))
    /\ last' = OtherAccess
    /\ UNCHANGED <<items, poisoned, issued, added, mutated>>

\* delete, lines 22-23
DeleteCs(p) ==
    /\ pc[p] = "delete_cs"
    /\ items' = VecDefault
    /\ Mutation
    /\ Finish(p, Response(200, << >>, 0))
    /\ last' = Access("delete", 0, None)
    /\ UNCHANGED <<poisoned, issued>>

\* (variant: the found item is taken out of the Vec instead of cloned)
GetTodoCsTake(p) ==
    /\ pc[p] = "get_todo_cs"
    /\ Finish(p, IF Find(items, req[p].id) = None
                 THEN Response(404, << >>, 0)
                 ELSE Response(200, Find(items, req[p].id), 0))
    /\ last' = OtherAccess
    /\ items' = IF Position(items, req[p].id) = None
                THEN items
                ELSE Remove(items, Position(items, req[p].id)[1])
    /\ Mutation
    /\ UNCHANGED <<poisoned, issued>>
\* get_todo, lines 28-32
GetTodoCs(p) ==
    /\ pc[p] = "get_todo_cs"
    /\ Finish(p, IF Find(items, req[p].id) = None
                 THEN Response(404, << >>, 0)
                 ELSE Response(200, Find(items, req[p].id), 0))
    /\ last' = OtherAccess
    /\ UNCHANGED <<items, poisoned, issued, added, mutated>>

\* add, lines 39-40
AddCs(p) ==
    /\ pc[p] = "add_cs"
    /\ items' = Push(items, todo[p][1])
    /\ Finish(p, Response(201, << >>, todo[p][1].id))
    /\ last' = Access("add", todo[p][1].id, req[p].title)
    /\ added' = IF mutated THEN added
                ELSE Append(added, [id |-> resp'.id, title |-> resp'.req.title[1]])
    /\ UNCHANGED <<poisoned, issued, mutated>>

\* delete_todo, lines 45-46 and 51: the index is found, the guard dropped
DeleteTodoCs(p) ==
    /\ pc[p] = "delete_todo_cs"
    /\ last' = OtherAccess
    /\ IF Position(items, req[p].id) = None
       THEN Finish(p, Response(404, << >>, 0))
       ELSE /\ index' = [index EXCEPT ![p] = Position(items, req[p].id)]
            /\ pc' = [pc EXCEPT ![p] = "delete_todo_lock2"]
            /\ guard' = guard \ {p}
            /\ resp' = NoResponse
            /\ UNCHANGED <<req, todo, solo>>
    /\ UNCHANGED <<items, poisoned, issued, added, mutated>>

\* delete_todo, lines 48-49: Vec::remove panics when index >= len, and the
\* panic unwinds through the live guard, which poisons the mutex
DeleteTodoCs2(p) ==
    /\ pc[p] = "delete_todo_cs2"
    /\ last' = IF index[p][1] < Len(items)
               THEN Access("delete_todo", req[p].id, None)
               ELSE OtherAccess
    /\ IF index[p][1] < Len(items)
       THEN /\ items' = Remove(items, index[p][1])
            /\ Mutation
            /\ Finish(p, Response(200, << >>, 0))
            /\ UNCHANGED poisoned
       ELSE /\ poisoned' = TRUE
            /\ End(p)
            /\ guard' = guard \ {p}
            /\ resp' = NoResponse
            /\ UNCHANGED <<items, added, mutated>>
    /\ UNCHANGED issued

\* update_todo, lines 57-64
UpdateTodoCs(p) ==
    /\ pc[p] = "update_todo_cs"
    /\ last' = OtherAccess
    /\ IF Position(items, req[p].id) = None
       THEN /\ Finish(p, Response(404, << >>, 0))
            /\ UNCHANGED <<items, added, mutated>>
       ELSE /\ items' = UpdateFirst(items, req[p].id, req[p].title, req[p].completed)
            /\ Mutation
            /\ Finish(p, Response(200, << >>, 0))
    /\ UNCHANGED <<poisoned, issued>>

Next ==
    \E p \in Procs :
        \/ \E r \in Requests : Start(p, r)
        \/ New(p)
        \/ Lock(p)
        \/ GetCs(p)
        \/ DeleteCs(p)
        \/ GetTodoCs(p)
        \/ AddCs(p)
        \/ DeleteTodoCs(p)
        \/ DeleteTodoCs2(p)
        \/ UpdateTodoCs(p)

Spec == Init /\ [][Next]_vars

\* ------------------------------------------------------------- finer steps
\* update_todo's locked statement assignment by assignment: the guard of line
\* 57 lives to the end of the for loop, over both line 59 and line 60.

\* update_todo, lines 57-59 and 64: the loop finds the item, the title is assigned
UpdateTodoTitle(p) ==
    /\ pc[p] = "update_todo_cs"
    /\ last' = OtherAccess
    /\ IF Position(items, req[p].id) = None
       THEN /\ Finish(p, Response(404, << >>, 0))
            /\ UNCHANGED <<items, added, mutated>>
       ELSE /\ index' = [index EXCEPT ![p] = Position(items, req[p].id)]
            /\ items' = UpdateFirst(items, req[p].id, req[p].title, None)
            /\ Mutation
            /\ pc' = [pc EXCEPT ![p] = "update_todo_cs2"]
            /\ resp' = NoResponse
            /\ UNCHANGED <<guard, req, todo, solo>>
    /\ UNCHANGED <<poisoned, issued>>

\* update_todo, lines 60-61: completed is assigned to the same item, then return
UpdateTodoCompleted(p) ==
    /\ pc[p] = "update_todo_cs2"
    /\ last' = OtherAccess
    /\ items' = [k \in 1..Len(items) |->
                    IF index[p] = Some(k - 1)
                    THEN Apply(items[k], None, req[p].completed)
                    ELSE items[k]]
    /\ Mutation
    /\ Finish(p, Response(200, << >>, 0))
    /\ UNCHANGED <<poisoned, issued>>

NextFine ==
    \E p \in Procs :
        \/ \E r \in Requests : Start(p, r)
        \/ New(p)
        \/ Lock(p)
        \/ GetCs(p)
        \/ DeleteCs(p)
        \/ GetTodoCs(p)
        \/ AddCs(p)
        \/ DeleteTodoCs(p)
        \/ DeleteTodoCs2(p)
        \/ UpdateTodoTitle(p)
        \/ UpdateTodoCompleted(p)

SpecFine == Init /\ [][NextFine]_vars

\* ------------------------------------------------------------- types
TypeOK ==
    /\ Len(items) <= MaxIds
    /\ guard \subseteq Procs
    /\ issued \in 0..MaxIds
    /\ \A p \in Procs : req[p] \in Requests \cup {NoRequest}

\* ------------------------------------------------------------- claims
\* what the claims speak of
HasId(s, id) == \E k \in 1..Len(s) : s[k].id = id
IdsOf(s) == {s[k].id : k \in 1..Len(s)}
Without(s, id) == LET Keep(x) == x.id # id IN SelectSeq(s, Keep)
\* handler p's locked statement runs in this step
Runs(p, at) == pc[p] = at /\ pc'[p] # pc[p]
\* handler p returns its response in this step
Responds(p) == pc[p] # "idle" /\ pc'[p] = "idle" /\ resp'.proc = p
Documented(o) ==
    CASE o = "get" -> {200}
      [] o = "delete" -> {200}
      [] o = "add" -> {201}
      [] OTHER -> {200, 404}

\* C1: a delete_todo request for id X never removes an item whose id is not
\* X: every item of another id that is in the collection before the remove
\* step is in it after the step.
C1_DeleteRemovesOnlyItsId ==
    [][\A p \in Procs : Runs(p, "delete_todo_cs2") =>
          \A k \in 1..Len(items) :
             items[k].id # req[p].id => \E j \in 1..Len(items') : items'[j] = items[k]]_vars

\* C2: every request ends with one of its documented responses; no handler
\* ends without one (a panic), and delete_todo never removes at an index
\* outside the collection.
C2_EveryRequestResponds ==
    [][\A p \in Procs :
          /\ (pc[p] # "idle" /\ pc'[p] = "idle") =>
                (resp'.proc = p /\ resp'.status \in Documented(req[p].op))
          /\ pc[p] = "delete_todo_cs2" => index[p][1] < Len(items)]_vars

\* The atomic store of the specification: request r on collection s gives
\* collection t and response (status, body, id) in one step.
AtomicStore(r, s, t, status, body, id) ==
    CASE r.op = "get" -> t = s /\ status = 200 /\ body = s
      [] r.op = "delete" -> t = << >> /\ status = 200 /\ body = << >>
      [] r.op = "get_todo" ->
            /\ t = s
            /\ IF HasId(s, r.id)
               THEN status = 200 /\ Len(body) = 1 /\ body[1].id = r.id
                    /\ \E k \in 1..Len(s) : s[k] = body[1]
               ELSE status = 404 /\ body = << >>
      [] r.op = "add" ->
            /\ id \notin IdsOf(s)
            /\ t = Append(s, [id |-> id, title |-> r.title[1], completed |-> FALSE])
            /\ status = 201
      [] r.op = "delete_todo" ->
            IF HasId(s, r.id)
            THEN t = Without(s, r.id) /\ status = 200 /\ body = << >>
            ELSE t = s /\ status = 404 /\ body = << >>
      [] r.op = "update_todo" ->
            IF HasId(s, r.id)
            THEN /\ status = 200 /\ body = << >>
                 /\ t = [k \in 1..Len(s) |->
                          IF s[k].id = r.id
                          THEN [id |-> s[k].id,
                                title |-> IF r.title = << >> THEN s[k].title
                                          ELSE r.title[1],
                                completed |-> IF r.completed = << >> THEN s[k].completed
                                              ELSE r.completed[1]]
                          ELSE s[k]]
            ELSE t = s /\ status = 404 /\ body = << >>

\* C3: the handlers refine the atomic store: the collection changes only in
\* the step in which a request returns its response, and in that step the
\* collection and the response change as the atomic store's single step does.
C3_RefinesAtomicStore ==
    [][/\ items' # items => \E p \in Procs : Responds(p)
       /\ \A p \in Procs : Responds(p) =>
             AtomicStore(req[p], items, items', resp'.status, resp'.body, resp'.id)]_vars

\* C4: no two items of the collection have the same id.
C4_UniqueIds ==
    \A i, j \in 1..Len(items) : i # j => items[i].id # items[j].id

\* two items, the first added by the handler that drew its id second
C4_Witness == Len(items) = 2 /\ items[1].id = 2

C8_ListReturnsAddsInOrder ==
    [][\A p \in Procs :
          (Runs(p, "get_cs") /\ ~mutated)
          => /\ Responds(p) /\ resp'.status = 200
             /\ resp'.body = [k \in 1..Len(added) |->
                                 Todo(added[k].id, added[k].title, FALSE)]
             /\ \A i, j \in 1..Len(resp'.body) :
                   i # j => resp'.body[i].id # resp'.body[j].id]_vars

\* a list of two added items, the first of which got its id second
C8_Witness ==
    /\ resp.req.op = "get" /\ resp.status = 200 /\ ~mutated
    /\ Len(resp.body) = 2 /\ resp.body[1].id = 2 /\ Len(added) = 2

\* C9: a get for the id an add has just returned, with no store access
\* between the two, returns 200 with the item of that id, the title the add
\* was given and completed = false.
C9_GetAfterAdd ==
    [][\A p \in Procs :
          (Runs(p, "get_todo_cs") /\ last.op = "add" /\ last.id = req[p].id)
          => /\ Responds(p) /\ resp'.status = 200
             /\ resp'.body = <<Todo(last.id, last.title[1], FALSE)>>]_vars

\* such a get has returned, for the second of two items
C9_Witness ==
    /\ resp.req.op = "get_todo" /\ resp.status = 200
    /\ resp.after.op = "add" /\ resp.after.id = resp.req.id
    /\ Len(items) = 2

Removed(i) ==
    /\ i \in 1..issued
    /\ ~HasId(items, i)
    /\ \A p \in Procs : todo[p] = None \/ todo[p][1].id # i

\* C11: once the item of an id has been removed, every get, update and
\* delete-by-id for that id that returns afterwards returns 404, and no list
\* returns an item of that id.
C11_RemovedStaysRemoved ==
    [][\A p \in Procs :
          /\ (Responds(p) /\ req[p].op \in {"get_todo", "update_todo", "delete_todo"}
                /\ Removed(req[p].id)) => resp'.status = 404
          /\ (Responds(p) /\ req[p].op = "get") =>
                \A k \in 1..Len(resp'.body) : ~Removed(resp'.body[k].id)]_vars

\* C12: an update is all-or-nothing for readers.  The collection holds a
\* half-updated item (title assigned, completed not yet) only while the
\* update is between lines 59 and 60; no list or get returns in such a state,
\* and what a list or get returns are the items of the collection as they are
\* in the state it runs in.
C12_NoPartialUpdateVisible ==
    [][\A r \in Procs :
          (Responds(r) /\ req[r].op \in {"get", "get_todo"})
          => /\ \A q \in Procs : pc[q] # "update_todo_cs2"
             /\ req[r].op = "get" => resp'.body = items
             /\ req[r].op = "get_todo" =>
                   \A k \in 1..Len(resp'.body) :
                      \E j \in 1..Len(items) : items[j] = resp'.body[k]]_vars

\* an update that supplies both fields has assigned the title and not yet the
\* flag it is about to change, while a get for that item waits for the lock
C12_Witness ==
    \E q, r \in Procs :
       /\ pc[q] = "update_todo_cs2"
       /\ req[q].title = Some("b") /\ req[q].completed = Some(TRUE)
       /\ items[index[q][1] + 1] = Todo(req[q].id, "b", FALSE)
       /\ pc[r] = "get_todo_lock" /\ req[r].id = req[q].id

\* ------------------------------------------------------------------ fairness
\* a handler that has started keeps running: each of its steps outside the
\* lock is taken if it stays possible, and a handler waiting for the lock gets
\* it if the lock is free again and again (more than std::sync::Mutex
\* promises, which has no queue; with weak fairness of Lock alone two other
\* handlers could take turns and leave a third one waiting forever)
Step(p) ==
    \/ New(p)
    \/ GetCs(p)
    \/ DeleteCs(p)
    \/ GetTodoCs(p)
    \/ AddCs(p)
    \/ DeleteTodoCs(p)
    \/ DeleteTodoCs2(p)
    \/ UpdateTodoCs(p)

SpecFair ==
    /\ Spec
    /\ \A p \in Procs : WF_vars(Step(p)) /\ SF_vars(Lock(p))

\* C13: every request that has started eventually returns its response.
C13_EveryRequestEventuallyResponds ==
    \A p \in Procs : InFlight(p) ~> (resp.proc = p)

\* C14: whatever earlier requests did, a list and an add get the lock when
\* they ask for it, the list returns 200 with the collection as it is, and
\* the add returns 201.
C14_FailureScopedToRequest ==
    [][\A p \in Procs :
          /\ Runs(p, "get_lock") => pc'[p] = "get_cs"
          /\ Runs(p, "add_lock") => pc'[p] = "add_cs"
          /\ (req[p].op = "get" /\ InFlight(p) /\ pc'[p] = "idle") =>
                (Responds(p) /\ resp'.status = 200 /\ resp'.body = items)
          /\ (req[p].op = "add" /\ InFlight(p) /\ pc'[p] = "idle") =>
                (Responds(p) /\ resp'.status = 201)]_vars

\* the ids of collection s in collection order
IdSeq(s) == [k \in 1..Len(s) |-> s[k].id]
\* sequence s without its element at position k (1-based)
Drop(s, k) == [j \in 1..(Len(s) - 1) |-> IF j < k THEN s[j] ELSE s[j + 1]]

\* C15: no step changes the id of an item that stays in the collection: a
\* step that keeps the length keeps every position's id, a step that adds
\* keeps the ids of the items already there, and a step that removes leaves
\* the ids of the remaining items as they were and in their order.
C15_IdNeverChanges ==
    [][/\ Len(items') = Len(items) => IdSeq(items') = IdSeq(items)
       /\ Len(items') > Len(items) =>
             SubSeq(IdSeq(items'), 1, Len(items)) = IdSeq(items)
       /\ Len(items') < Len(items) =>
             \/ items' = << >>
             \/ \E k \in 1..Len(items) : IdSeq(items') = Drop(IdSeq(items), k)]_vars

\* an update that supplied both fields has returned 200 and the second of two
\* items carries the new title and flag under the id it was added with
C15_Witness ==
    /\ resp.status = 200 /\ resp.req.op = "update_todo"
    /\ resp.req.title = Some("b") /\ resp.req.completed = Some(TRUE)
    /\ Len(items) = 2
    /\ items[2] = Todo(resp.req.id, "b", TRUE)
    /\ items[1].id # resp.req.id

\* C16: no step of a list handler or of a get handler, from its start to its
\* response (200 or 404), changes the collection.
C16_ReadsHaveNoSideEffects ==
    [][\A p \in Procs :
          (req[p].op \in {"get", "get_todo"} /\ InFlight(p) /\ pc'[p] # pc[p])
          => items' = items]_vars

\* a get has returned the second of two items, one of them already updated,
\* and both are still in the collection
C16_Witness ==
    /\ resp.status = 200 /\ resp.req.op = "get_todo"
    /\ Len(items) = 2
    /\ resp.body = <<items[2]>>
    /\ items[1].completed

\* the positions at which a handler reads or writes the collection
CsPcs == {CsOf(l) : l \in LockPcs} \cup {"update_todo_cs2"}

\* C17: at most one handler holds the lock; a handler that is at a statement
\* reading or writing the collection holds it; and every step that changes
\* the collection or returns a response computed from it is a step of the
\* handler holding the lock.
C17_AccessOnlyUnderLock ==
    /\ [](Cardinality(guard) <= 1)
    /\ [](\A p \in Procs : pc[p] \in CsPcs => p \in guard)
    /\ [][/\ items' # items => \E p \in guard : pc[p] \in CsPcs /\ pc'[p] # pc[p]
          /\ \A p \in Procs : Responds(p) => (guard = {p} /\ pc[p] \in CsPcs)]_vars

\* one handler holds the lock between update_todo's two writes while the
\* other one, an add, waits for it
C17_Witness ==
    \E p, q \in Procs :
       /\ pc[p] = "update_todo_cs2" /\ guard = {p}
       /\ pc[q] = "add_lock"

DupStores ==
    { [s |-> <<Todo(1, "a", FALSE), Todo(1, "b", FALSE)>>, n |-> 1],
      [s |-> <<Todo(2, "a", FALSE), Todo(1, "a", FALSE), Todo(1, "b", FALSE)>>, n |-> 2] }

InitDup ==
    /\ \E d \in DupStores : items = d.s /\ issued = d.n
    /\ poisoned = FALSE
    /\ guard = {}
    /\ pc = [p \in Procs |-> "idle"]
    /\ req = [p \in Procs |-> NoRequest]
    /\ index = [p \in Procs |-> None]
    /\ todo = [p \in Procs |-> None]
    /\ resp = NoResponse
    /\ solo = [p \in Procs |-> FALSE]
    /\ last = OtherAccess
    /\ added = << >>
    /\ mutated = TRUE

SpecDup == InitDup /\ [][Next]_vars

\* the place (1-based) of the first item of collection s with the id
FirstOf(s, id) == CHOOSE k \in 1..Len(s) : s[k].id = id /\ \A j \in 1..(k - 1) : s[j].id # id

\* C19: in a collection that may hold an id more than once, a get returns
\* the first item of the id, an update changes the first item of the id and
\* no other, and a delete-by-id that returns 200 has removed the first item of
\* the id and no other.
C19_FirstMatchOnly ==
    [][\A p \in Procs :
          /\ (Runs(p, "get_todo_cs") /\ HasId(items, req[p].id)) =>
                /\ resp'.status = 200
                /\ resp'.body = <<items[FirstOf(items, req[p].id)]>>
                /\ items' = items
          /\ (Runs(p, "update_todo_cs") /\ HasId(items, req[p].id)) =>
                /\ resp'.status = 200
                /\ Len(items') = Len(items)
                /\ \A k \in 1..Len(items) :
                      k # FirstOf(items, req[p].id) => items'[k] = items[k]
          /\ (Runs(p, "delete_todo_cs2") /\ Responds(p)) =>
                /\ HasId(items, req[p].id)
                /\ items' = Drop(items, FirstOf(items, req[p].id))]_vars

\* C20: a delete-by-id never returns 200 for an id right after another
\* delete-by-id has returned 200 for the same id (with unique ids the item is
\* gone and the answer is 404), and a delete-by-id that returns 200 has made
\* the collection one item shorter.
C20_OneDeleteSucceeds ==
    [][\A p \in Procs :
          (Responds(p) /\ req[p].op = "delete_todo" /\ resp'.status = 200)
          => /\ last # Access("delete_todo", req[p].id, None)
             /\ Len(items') = Len(items) - 1]_vars

====
